---- MODULE Spec2Model ----
(***************************************************************************)
(* The Reddit topic scraper (src/scraper/reddit_public_scrape.py): the     *)
(* retrying fetch_json, the per-query pagination loop search_reddit, the   *)
(* run-wide deduplication of the main block and the two sink writers;      *)
(* and the video search pagination loop of src/data_ingestion/load.py.     *)
(*                                                                         *)
(* Python values.  A nullable value is a set with at most one element:     *)
(* None is {} and a present value v is {v}.  A dict is a function from     *)
(* its keys to nullable values.  A str the code scans (a post's title, a   *)
(* Retry-After header) is a sequence of one-character strings; a str the   *)
(* code only stores and compares is a TLA+ string.                         *)
(***************************************************************************)
EXTENDS Integers, Sequences, FiniteSets, TLC

None == {}
Some(x) == {x}
Val(o) == CHOOSE x \in o : TRUE

\* d.get(k)
Get(d, k) == IF k \in DOMAIN d THEN d[k] ELSE None

\* Python's `o or dflt` on a nullable int, str and list
OrInt(o, dflt) == IF o # None /\ Val(o) # 0 THEN Val(o) ELSE dflt
OrStr(o, dflt) == IF o # None /\ Val(o) # "" THEN Val(o) ELSE dflt
OrList(o, dflt) == IF o # None /\ Val(o) # <<>> THEN Val(o) ELSE dflt
OrChars(o) == IF o # None THEN Val(o) ELSE <<>>

Min(a, b) == IF a <= b THEN a ELSE b
Max(a, b) == IF a >= b THEN a ELSE b

RECURSIVE Pow2(_)
Pow2(n) == IF n = 0 THEN 1 ELSE 2 * Pow2(n - 1)

(***************************************************************************)
(* Text helpers: HASHTAG_RE / MENTION_RE, extract_hashtags,                *)
(* extract_mentions.                                                       *)
(***************************************************************************)
UpperChars == {"A", "B"}
LowerChars == {"a", "b"}
DigitChars == {"0", "1", "2", "3", "4", "5", "6", "7", "8", "9"}
\* [0-9A-Z_] under re.IGNORECASE
WordChars == UpperChars \cup LowerChars \cup DigitChars \cup {"_"}
SpaceChars == {" ", "\n"}

\* str.lower() of one character
LowerChar(c) == CASE c = "A" -> "a" [] c = "B" -> "b" [] OTHER -> c

RECURSIVE Str(_)
\* the characters as one string
Str(cs) == IF cs = <<>> THEN "" ELSE Head(cs) \o Str(Tail(cs))

\* "#" (or "@") at position s, followed by at least one word character
SigilAt(t, sigil, s) ==
    /\ s + 1 <= Len(t)
    /\ t[s] = sigil
    /\ t[s + 1] \in WordChars

\* A match of (?:^|[^0-9A-Z_])#([A-Z0-9_]+) starting at position i: the
\* position of its sigil, 0 when there is none.  The alternative ^ is tried
\* first and matches at the start of the text alone.
SigilPos(t, sigil, i) ==
    IF i = 1 /\ SigilAt(t, sigil, 1) THEN 1
    ELSE IF t[i] \notin WordChars /\ SigilAt(t, sigil, i + 1) THEN i + 1
    ELSE 0

RECURSIVE WordEnd(_, _)
\* the greedy [A-Z0-9_]+ that starts at position j ends at WordEnd(t, j)
WordEnd(t, j) ==
    IF j + 1 <= Len(t) /\ t[j + 1] \in WordChars THEN WordEnd(t, j + 1) ELSE j

RECURSIVE FindAll(_, _, _)
\* {m.group(1).lower() for m in RE.finditer(t)}, scanning from position i
FindAll(t, sigil, i) ==
    IF i > Len(t) THEN {}
    ELSE LET s == SigilPos(t, sigil, i)
         IN  IF s = 0 THEN FindAll(t, sigil, i + 1)
             ELSE LET e == WordEnd(t, s + 1)
                      g == [k \in 1..(e - s) |-> LowerChar(t[s + k])]
                  IN  {g} \cup FindAll(t, sigil, e + 1)

\* code points of the characters a lower-cased tag can hold
Ord(c) ==
    CASE c \in DigitChars -> 48 + (CHOOSE n \in 0..9 : ToString(n) = c)
      [] c = "_" -> 95
      [] c = "a" -> 97
      [] c = "b" -> 98
      [] c = "A" -> 65
      [] c = "B" -> 66

RECURSIVE StrLess(_, _)
\* Python's < on two str
StrLess(u, v) ==
    IF v = <<>> THEN FALSE
    ELSE IF u = <<>> THEN TRUE
    ELSE IF Ord(Head(u)) # Ord(Head(v)) THEN Ord(Head(u)) < Ord(Head(v))
    ELSE StrLess(Tail(u), Tail(v))

RECURSIVE Sorted(_)
\* sorted(S) of a set of str
Sorted(S) ==
    IF S = {} THEN <<>>
    ELSE LET m == CHOOSE x \in S : \A y \in S \ {x} : StrLess(x, y)
         IN  <<m>> \o Sorted(S \ {m})

StrEach(seq) == [k \in 1..Len(seq) |-> Str(seq[k])]

extract_hashtags(text) == StrEach(Sorted(FindAll(OrChars(text), "#", 1)))
extract_mentions(text) == StrEach(Sorted(FindAll(OrChars(text), "@", 1)))

RECURSIVE LStrip(_)
LStrip(cs) ==
    IF cs # <<>> /\ Head(cs) \in SpaceChars THEN LStrip(Tail(cs)) ELSE cs
RECURSIVE RStrip(_)
RStrip(cs) ==
    IF cs # <<>> /\ cs[Len(cs)] \in SpaceChars
    THEN RStrip(SubSeq(cs, 1, Len(cs) - 1)) ELSE cs
\* str.strip()
Strip(cs) == RStrip(LStrip(cs))

(***************************************************************************)
(* to_schema.  Of the sixteen columns, created_at and permalink are left   *)
(* out: they are a timestamp formatting and a URL prefix that no modelled  *)
(* step reads.                                                             *)
(***************************************************************************)
to_schema(post) ==
    LET post_id == IF OrStr(Get(post, "name"), "") # ""
                   THEN Get(post, "name") ELSE Get(post, "id")
        title == OrChars(Get(post, "title"))
        body == OrChars(Get(post, "selftext"))
        text == IF body # <<>> THEN Strip(title \o <<"\n", "\n">> \o body)
                ELSE Strip(title)
        likes == OrInt(Get(post, "score"), 0)
        comments == OrInt(Get(post, "num_comments"), 0)
    IN  [post_id |-> post_id,
         platform |-> Some("reddit"),
         text |-> Some(Str(text)),
         hashtags |-> Some(extract_hashtags(Some(text))),
         mentions |-> Some(extract_mentions(Some(text))),
         likes |-> Some(likes),
         comments |-> Some(comments),
         shares |-> Some(0),
         language |-> Some("en"),
         location |-> None,
         subreddit |-> Get(post, "subreddit"),
         url |-> Get(post, "url")]

(***************************************************************************)
(* Bounds of the model and constants of the program.                       *)
(***************************************************************************)
\* fetch_json's max_retries (its default; search_reddit never passes another)
max_retries == 6
\* search_reddit's limit_total (LIMIT_PER_TOPIC = 200 in the main block), scaled
limit_total == 2
\* the most children one page carries (params "limit": 100), scaled
PageLimit == 2
\* the number of entries of the main block's topics dict, scaled
NumTopics == 2

\* src/data_ingestion/load.py: VIDEOS_PER_QUERY = 200, scaled
VIDEOS_PER_QUERY == 2
\* src/data_ingestion/load.py: maxResults=50, the most items of one search
\* page and the size of one videos().list batch, scaled
maxResults == 2
\* src/data_ingestion/load.py: the number of entries of search_queries
NumSearchQueries == 3

\* the keys of topics, in the dict's order
TopicTags ==
    <<"ai_tools", "phone_launches", "gadgets_gaming", "cybersecurity_scams",
      "side_hustles", "job_hunting", "crypto_forex", "personal_finance">>
topics == SubSeq(TopicTags, 1, NumTopics)

(***************************************************************************)
(* What the remote may answer.                                             *)
(***************************************************************************)
Statuses == {200, 300, 403, 404, 429, 503}
\* r.headers.get("retry-after"): absent, delay seconds, an HTTP date, empty
RetryAfterValues ==
    {None, Some(<<"1">>), Some(<<"9", "0">>), Some(<<"x">>), Some(<<>>)}
\* data["data"]["after"]
Cursors == {None, Some(""), Some("c1"), Some("c2")}

\* what os.getenv returns: None for a name absent from the environment
EnvValues == {None, Some("set")}

PostA1 ==
    [name |-> Some("t3_a"), id |-> Some("a"),
     title |-> Some(<<"#", "A", "b", " ", "#", "a", "b", " ", "@", "B">>),
     score |-> Some(5), num_comments |-> Some(2),
     subreddit |-> Some("tech"), url |-> Some("u1")]
PostA2 ==
    [name |-> Some("t3_a"), id |-> Some("a"),
     title |-> Some(<<" ", "b", " ", "#", "b", " ", "#", "a">>),
     selftext |-> Some(<<"@", "a", "1", "\n">>),
     score |-> None, num_comments |-> Some(1), subreddit |-> None]
PostB ==
    [name |-> Some(""), id |-> Some("t3_b"), title |-> None,
     selftext |-> Some(<<"#", "#", "b", "_">>), score |-> Some(1)]
PostNoId == [title |-> Some(<<"#">>), score |-> Some(7)]
\* the children's "data" a page may carry
RawPosts == {PostA1, PostA2, PostB, PostNoId}

RECURSIVE SeqsUpTo(_, _)
\* the sequences over S of length at most n
SeqsUpTo(S, n) ==
    IF n = 0 THEN {<<>>}
    ELSE LET shorter == SeqsUpTo(S, n - 1)
         IN  shorter \cup {Append(q, x) : q \in shorter, x \in S}

Pages == SeqsUpTo(RawPosts, PageLimit)

\* the videoIds a search page of the loader may carry, and its nextPageToken
VideoIds == {"v1", "v2"}
VideoPages == SeqsUpTo(VideoIds, maxResults)
PageTokens == {None, Some("t1")}

\* comments loader: the comment threads one commentThreads().list may return
MaxComments == 1
CommentIds == {"k1", "k2"}
\* the lists without a repeated entry
Distinct(lists) ==
    {l \in lists : \A i, j \in 1..Len(l) : l[i] = l[j] => i = j}
CommentPages == Distinct(SeqsUpTo(CommentIds, MaxComments))
\* the items of one search().list: a video appears once
SearchItems == Distinct(VideoPages)
\* videos_with_comments[:5]
CommentVideos == 5

(***************************************************************************)
(* fetch_json: the decisions of one attempt.                               *)
(***************************************************************************)
\* str.isdigit()
IsDigit(cs) == cs # <<>> /\ \A i \in 1..Len(cs) : cs[i] \in DigitChars

RECURSIVE IntOf(_)
\* int() of a string of digits
IntOf(cs) ==
    IF cs = <<>> THEN 0
    ELSE 10 * IntOf(SubSeq(cs, 1, Len(cs) - 1))
         + (CHOOSE n \in 0..9 : ToString(n) = cs[Len(cs)])

IsRateLimit(status) == status \in {429, 503}

\* a rate-limit sleep without the floor of 2 seconds
RateLimitSleepNoFloor(retry_after, attempt) ==
    LET sleep_for == IF retry_after # None /\ Val(retry_after) # <<>>
                        /\ IsDigit(Val(retry_after))
                     THEN IntOf(Val(retry_after))
                     ELSE Pow2(attempt)
    IN  Min(sleep_for, 60)

\* the sleep_for of the 429/503 branch
RateLimitSleep(retry_after, attempt) ==
    LET sleep_for == IF retry_after # None /\ Val(retry_after) # <<>>
                        /\ IsDigit(Val(retry_after))
                     THEN IntOf(Val(retry_after))
                     ELSE Pow2(attempt)
    IN  Min(Max(sleep_for, 2), 60)

\* a 403 branch that is taken on the last attempt too
IsRetriedForbiddenAlways(status, attempt) == status = 403

\* the condition of the 403 branch
IsRetriedForbidden(status, attempt) ==
    status = 403 /\ attempt < max_retries - 1

\* the sleep_for of the 403 branch
ForbiddenSleep(attempt) == Min(Pow2(attempt), 30)

\* a retry loop without a budget
HasNextAttemptForever(attempt) == TRUE

\* for attempt in range(max_retries): is there an iteration after this one
HasNextAttempt(attempt) == attempt + 1 < max_retries

\* r.raise_for_status() raises HTTPError for 4xx and 5xx
RaisesForStatus(status) == 400 <= status /\ status < 600

(***************************************************************************)
(* State of one run of one script: the scraper                             *)
(* (src/scraper/reddit_public_scrape.py), the loader                       *)
(* (src/data_ingestion/load.py) or the comments loader (src/data/load.py). *)
(* The two loaders name their variables alike; a variable of that name     *)
(* stands for the one of the script that runs.                             *)
(***************************************************************************)
VARIABLES
    script,     \* the script that runs: "scraper", "loader" or "comments"
    youtube_api_key,    \* os.getenv("YOUTUBE_API_KEY") of the loaders
    mongo_uri,          \* os.getenv("DATABASE_URL") of the loaders
    USER_AGENT,         \* os.getenv("USER_AGENT") of the scraper
    pc,         \* where the script is.  "start": nothing has run yet;
                \* "fatal": exit(1) at startup.  Scraper:
                \* "main" (head of `for tag, q in topics`),
                \* "fetch" (in fetch_json, about to issue a request),
                \* "page" (fetch_json has returned a page),
                \* "rows" (search_reddit has returned), "exit".  Loader:
                \* "vmain" (head of `for query in search_queries`),
                \* "vsearch" (about to execute a search request), "vbatch"
                \* (the search loop is over), "vexit".  Comments loader:
                \* "ymain" (head of `for query in search_queries`),
                \* "yvideos" (the search has returned items), "ycomments"
                \* (head of `for video in videos_with_comments[:5]`),
                \* "yexit"
    qi,         \* the number of topics whose iteration is complete
    all_rows,   \* search_reddit's all_rows (the main block's rows once returned)
    after,      \* search_reddit's after
    params,     \* search_reddit's params.get("after")
    attempt,    \* fetch_json's attempt
    combined,   \* the main block's combined
    seen_ids,   \* the main block's seen_ids
    jsonl,      \* the lines of reddit_topics.jsonl, None until written
    csv,        \* the rows of reddit_topics.csv, None until written
    exc,        \* the exception that ended the process, "" when none
    requests,   \* HTTP requests issued by the fetch_json call in progress,
                \* or by the call that raised
    lastPage,   \* the last page of the query in progress: "none" before the
                \* first, else "empty", "cursor" or "nocursor"
    ev,         \* what the last step did: the response it received and the
                \* sleeps it took
    vq,                 \* loader: the number of queries whose iteration is over
    all_video_ids,      \* loader: all_video_ids
    next_page_token,    \* loader: next_page_token
    videos_collected,   \* loader: videos_collected
    total_videos,       \* loader: total_videos, one worksheet row each
    videos_collection,  \* loader: the video_ids stored in db.youtube_videos
    saved,              \* loader: wb.save has written the workbook
    video_ids,              \* comments loader: video_ids
    videos_with_comments,   \* comments loader: videos_with_comments[:5]
    vi,                     \* comments loader: the videos of that list whose
                            \* iteration is over
    comments_collection,    \* comments loader: the comment_ids stored in
                            \* db.youtube_comments
    total_comments          \* comments loader: total_comments

scraperVars == <<qi, all_rows, after, params, attempt, combined, seen_ids,
                 jsonl, csv, exc, requests, lastPage>>
loaderVars == <<vq, all_video_ids, next_page_token, videos_collected,
                total_videos, videos_collection, saved>>
configVars == <<youtube_api_key, mongo_uri, USER_AGENT>>
commentVars == <<video_ids, videos_with_comments, vi, comments_collection,
                 total_comments>>
vars == <<script, pc, configVars, scraperVars, ev, loaderVars, commentVars>>

\* an event: kind is "init", "call", "retry" (a response, a sleep, the next
\* attempt), "raise" (a response, an exception), "ok" (a response, fetch_json
\* returns), "page", "dedup" or "save"; status, retry_after and sent are the
\* response received and the cursor its request carried; attempt is the
\* attempt that received it (kept for "retry" and "raise"); backoff is the seconds slept after the response (0: no
\* sleep); n is the number of children of a page; polite tells whether
\* time.sleep(sleep_s) was taken
Event(kind, status, att, retry_after, sent, backoff, n, polite) ==
    [kind |-> kind, status |-> status, attempt |-> att,
     retry_after |-> retry_after, sent |-> sent, backoff |-> backoff,
     n |-> n, polite |-> polite]
Quiet(kind) == Event(kind, 0, 0, None, None, 0, 0, FALSE)

Scripts == {"scraper", "loader", "comments"}

Init ==
    /\ script \in Scripts
    /\ pc = "start"
    /\ youtube_api_key = None
    /\ mongo_uri = None
    /\ USER_AGENT = None
    /\ video_ids = <<>>
    /\ videos_with_comments = <<>>
    /\ vi = 0
    /\ comments_collection = {}
    /\ total_comments = 0
    /\ vq = 0
    /\ all_video_ids = <<>>
    /\ next_page_token = None
    /\ videos_collected = 0
    /\ total_videos = 0
    /\ videos_collection = {}
    /\ saved = FALSE
    /\ qi = 0
    /\ all_rows = <<>>
    /\ after = None
    /\ params = None
    /\ attempt = 0
    /\ combined = <<>>
    /\ seen_ids = {}
    /\ jsonl = None
    /\ csv = None
    /\ exc = ""
    /\ requests = 0
    /\ lastPage = "none"
    /\ ev = Quiet("init")

(***************************************************************************)
(* Startup: each script reads its configuration from the environment.      *)
(***************************************************************************)
\* the scraper's main block up to the topic loop: os.getenv("USER_AGENT") is
\* read and never tested
ScraperStartup ==
    /\ pc = "start"
    /\ script = "scraper"
    /\ USER_AGENT' \in EnvValues
    /\ pc' = "main"
    /\ ev' = Quiet("start")
    /\ UNCHANGED <<script, youtube_api_key, mongo_uri, scraperVars, loaderVars,
                   commentVars>>

\* if not youtube_api_key: ... exit(1)
IsFatal(key) == key = None \/ Val(key) = ""

\* the module level of either load.py up to the query loop: the key is
\* tested, MongoClient(mongo_uri) is built whatever mongo_uri is (pymongo
\* connects on first use, to its default host when the uri is None)
LoaderStartup ==
    /\ pc = "start"
    /\ script \in {"loader", "comments"}
    \* a name set to the empty string reads as ""
    /\ youtube_api_key' \in EnvValues \cup {Some("")}
    /\ mongo_uri' \in EnvValues
    /\ pc' = IF IsFatal(youtube_api_key') THEN "fatal"
             ELSE IF script = "loader" THEN "vmain" ELSE "ymain"
    /\ ev' = Quiet("start")
    /\ UNCHANGED <<script, USER_AGENT, scraperVars, loaderVars, commentVars>>

\* Python truth of `after`
HasCursor(cur) == cur # None /\ Val(cur) # ""

\* a loop test that is off by one
LoopGoesOnOneMore(rows) == Len(rows) <= limit_total

\* while len(all_rows) < limit_total
LoopGoesOn(rows) == Len(rows) < limit_total

\* to_schema of each post the remote may return
SchemaOf == [p \in RawPosts |-> to_schema(p)]

\* an inner loop without its break
AppendChildrenAll(rows, children) ==
    rows \o [k \in 1..Len(children) |-> SchemaOf[children[k]]]

\* for child in children: all_rows.append(to_schema(...)); break at limit_total
AppendChildren(rows, children) ==
    LET room == limit_total - Len(rows)
        taken == IF Len(children) <= room THEN children
                 ELSE SubSeq(children, 1, Max(room, 1))
    IN  rows \o [k \in 1..Len(taken) |-> SchemaOf[taken[k]]]

\* an uncaught exception ends the process: nothing in search_reddit or in the
\* main block catches it
Raise(name) ==
    /\ pc' = "exit"
    /\ exc' = name
    /\ UNCHANGED <<qi, all_rows, after, params, attempt, combined, seen_ids,
                   jsonl, csv, lastPage>>

\* rows = search_reddit(...): the body up to the first fetch_json call
CallSearch ==
    /\ pc = "main"
    /\ UNCHANGED <<script, configVars, loaderVars, commentVars>>
    /\ qi < NumTopics
    /\ all_rows' = <<>>
    /\ after' = None
    /\ params' = None
    /\ attempt' = 0
    /\ requests' = 0
    /\ lastPage' = "none"
    /\ pc' = IF LoopGoesOn(<<>>) THEN "fetch" ELSE "rows"
    /\ ev' = Quiet("call")
    /\ UNCHANGED <<qi, combined, seen_ids, jsonl, csv, exc>>

\* an attempt answered 429 or 503
RateLimited ==
    /\ pc = "fetch"
    /\ UNCHANGED <<script, configVars, loaderVars, commentVars>>
    /\ \E status \in Statuses, retry_after \in RetryAfterValues :
        /\ IsRateLimit(status)
        /\ requests' = requests + 1
        /\ ev' = Event(IF HasNextAttempt(attempt) THEN "retry" ELSE "raise",
                       status, attempt, retry_after, params,
                       RateLimitSleep(retry_after, attempt), 0, FALSE)
        /\ IF HasNextAttempt(attempt)
           THEN /\ attempt' = attempt + 1
                /\ UNCHANGED <<pc, qi, all_rows, after, params, combined,
                               seen_ids, jsonl, csv, exc, lastPage>>
           ELSE Raise("RuntimeError")

\* an attempt answered 403 while attempts remain
Forbidden ==
    /\ pc = "fetch"
    /\ UNCHANGED <<script, configVars, loaderVars, commentVars>>
    /\ IsRetriedForbidden(403, attempt)
    /\ requests' = requests + 1
    /\ ev' = Event(IF HasNextAttempt(attempt) THEN "retry" ELSE "raise",
                   403, attempt, None, params, ForbiddenSleep(attempt), 0,
                   FALSE)
    /\ IF HasNextAttempt(attempt)
       THEN /\ attempt' = attempt + 1
            /\ UNCHANGED <<pc, qi, all_rows, after, params, combined,
                           seen_ids, jsonl, csv, exc, lastPage>>
       ELSE Raise("RuntimeError")

\* requests.get raises (no connection, timeout): nothing catches it
NetworkError ==
    /\ pc = "fetch"
    /\ UNCHANGED <<script, configVars, loaderVars, commentVars>>
    /\ requests' = requests + 1
    /\ ev' = Event("raise", 0, attempt, None, params, 0, 0, FALSE)
    /\ Raise("ConnectionError")

\* an attempt answered with a status for which raise_for_status raises
HttpError ==
    /\ pc = "fetch"
    /\ UNCHANGED <<script, configVars, loaderVars, commentVars>>
    /\ \E status \in Statuses :
        /\ ~IsRateLimit(status)
        /\ ~IsRetriedForbidden(status, attempt)
        /\ RaisesForStatus(status)
        /\ requests' = requests + 1
        /\ ev' = Event("raise", status, attempt, None, params, 0, 0, FALSE)
        /\ Raise("HTTPError")

\* an attempt answered with a status that does not raise and a body that
\* r.json() cannot decode
BadBody ==
    /\ pc = "fetch"
    /\ UNCHANGED <<script, configVars, loaderVars, commentVars>>
    /\ \E status \in Statuses :
        /\ ~IsRateLimit(status)
        /\ ~IsRetriedForbidden(status, attempt)
        /\ ~RaisesForStatus(status)
        /\ requests' = requests + 1
        /\ ev' = Event("raise", status, attempt, None, params, 0, 0, FALSE)
        /\ Raise("JSONDecodeError")

\* an attempt answered with a status that does not raise and a body that
\* r.json() decodes: fetch_json returns it, and its locals are gone
Decoded ==
    /\ pc = "fetch"
    /\ UNCHANGED <<script, configVars, loaderVars, commentVars>>
    /\ \E status \in Statuses :
        /\ ~IsRateLimit(status)
        /\ ~IsRetriedForbidden(status, attempt)
        /\ ~RaisesForStatus(status)
        /\ ev' = Event("ok", status, 0, None, params, 0, 0, FALSE)
    /\ pc' = "page"
    /\ attempt' = 0
    /\ requests' = 0
    /\ UNCHANGED <<qi, all_rows, after, params, combined, seen_ids, jsonl,
                   csv, exc, lastPage>>

\* a loop head that never writes the cursor into params
NextParamsStale(sent, cur) == sent

\* if after: params["after"] = after
NextParams(sent, cur) == IF HasCursor(cur) THEN cur ELSE sent

\* after a page with children: is time.sleep(sleep_s) reached
SleepsAfterPage(rows, cur) == HasCursor(cur)

\* search_reddit with the page fetch_json returned: the rest of its loop
\* body, up to the next fetch_json call or to its return
Page ==
    /\ pc = "page"
    /\ UNCHANGED <<script, configVars, loaderVars, commentVars>>
    /\ \E children \in Pages, cur \in Cursors :
        IF children = <<>>
        THEN /\ pc' = "rows"
             /\ lastPage' = "empty"
             /\ ev' = Quiet("page")
             /\ UNCHANGED <<all_rows, after, params, attempt, requests>>
        ELSE LET rows == AppendChildren(all_rows, children)
                 polite == SleepsAfterPage(rows, cur)
                 again == HasCursor(cur) /\ LoopGoesOn(rows)
             IN  /\ all_rows' = rows
                 /\ after' = cur
                 /\ lastPage' = IF HasCursor(cur) THEN "cursor" ELSE "nocursor"
                 /\ ev' = Event("page", 0, 0, None, None, 0, Len(children),
                                polite)
                 /\ pc' = IF again THEN "fetch" ELSE "rows"
                 \* the next iteration: if after: params["after"] = after
                 /\ params' = IF again THEN NextParams(params, cur) ELSE params
                 \* a new fetch_json call starts at attempt 0
                 /\ attempt' = IF again THEN 0 ELSE attempt
                 /\ requests' = IF again THEN 0 ELSE requests
    /\ UNCHANGED <<qi, combined, seen_ids, jsonl, csv, exc>>

(***************************************************************************)
(* The main block: deduplication of one query's rows.                      *)
(***************************************************************************)
\* a dedup test that forgets seen_ids
IsDroppedNoSeen(pid, seen) == pid = None \/ Val(pid) = ""

\* if not pid or pid in seen_ids: continue
IsDropped(pid, seen) == pid = None \/ Val(pid) = "" \/ Val(pid) \in seen

\* r["topic_tag"] = tag; r["engagement"] = int(likes or 0) + int(comments or 0)
Tagged(r, tag) ==
    ("topic_tag" :> Some(tag))
    @@ ("engagement" :> Some(OrInt(Get(r, "likes"), 0)
                             + OrInt(Get(r, "comments"), 0)))
    @@ r

RECURSIVE DedupRows(_, _, _, _)
\* for r in rows: ... combined.append(r)
DedupRows(rows, tag, comb, seen) ==
    IF rows = <<>> THEN [combined |-> comb, seen_ids |-> seen]
    ELSE LET r == Head(rows)
             pid == Get(r, "post_id")
         IN  IF IsDropped(pid, seen)
             THEN DedupRows(Tail(rows), tag, comb, seen)
             ELSE DedupRows(Tail(rows), tag, Append(comb, Tagged(r, tag)),
                            seen \cup {Val(pid)})

\* the rest of one iteration of `for tag, q in topics.items()`, once
\* search_reddit has returned: its locals are gone, and all_rows lives on as
\* the main block's rows
Dedup ==
    /\ pc = "rows"
    /\ UNCHANGED <<script, configVars, loaderVars, commentVars>>
    /\ LET d == DedupRows(all_rows, topics[qi + 1], combined, seen_ids)
       IN  /\ combined' = d.combined
           /\ seen_ids' = d.seen_ids
    /\ qi' = qi + 1
    /\ pc' = "main"
    /\ after' = None
    /\ params' = None
    /\ attempt' = 0
    /\ requests' = 0
    /\ lastPage' = "none"
    /\ ev' = Quiet("dedup")
    /\ UNCHANGED <<all_rows, jsonl, csv, exc>>

(***************************************************************************)
(* The sink writers.  A line of the JSONL file is the JSON object that     *)
(* json.dumps writes, as its members in order; a row of the CSV file is    *)
(* its cells.                                                              *)
(***************************************************************************)
\* save_csv's fieldnames (created_at and permalink left out, as in to_schema)
fieldnames ==
    <<"post_id", "platform", "text", "hashtags", "mentions", "likes",
      "comments", "shares", "language", "location", "subreddit", "url",
      "topic_tag", "engagement">>
IntFields == {"likes", "comments", "shares", "engagement"}
ListFields == {"hashtags", "mentions"}

\* the JSON value of a dict value
JsonValue(o) == IF o = None THEN [json |-> "null"]
                ELSE [json |-> "value", v |-> Val(o)]

KeysOf(r) == SelectSeq(fieldnames, LAMBDA k : k \in DOMAIN r)

\* json.dumps(r, ensure_ascii=False)
json_dumps(r) ==
    LET keys == KeysOf(r)
    IN  [j \in 1..Len(keys) |-> <<keys[j], JsonValue(r[keys[j]])>>]

\* save_jsonl: one line per row
save_jsonl(rows) == [i \in 1..Len(rows) |-> json_dumps(rows[i])]

RECURSIVE JoinStrs(_)
JoinStrs(list) ==
    IF list = <<>> THEN ""
    ELSE IF Len(list) = 1 THEN list[1]
    ELSE list[1] \o "," \o JoinStrs(Tail(list))

\* ",".join(x); None stands for the TypeError that joining None raises
Join(x) == IF x = None THEN None ELSE Some(JoinStrs(Val(x)))

\* row.get(k), without the `or []`
ListOrEmptyNoDefault(o) == o

\* row.get(k) or []
ListOrEmpty(o) == Some(OrList(o, <<>>))

\* what csv.DictWriter writes for a value: "" for None, str(v) otherwise
CsvCell(k, o) ==
    IF o = None THEN ""
    ELSE IF k \in IntFields THEN ToString(Val(o))
    ELSE Val(o)

\* the body of save_csv's loop for one row: the cells written, or None when
\* the row raises
CsvRow(r) ==
    LET hashtags == Join(ListOrEmpty(Get(r, "hashtags")))
        mentions == Join(ListOrEmpty(Get(r, "mentions")))
        row == ("hashtags" :> hashtags) @@ ("mentions" :> mentions) @@ r
    IN  IF hashtags = None \/ mentions = None THEN None
        ELSE Some([j \in 1..Len(fieldnames) |->
                     CsvCell(fieldnames[j], Get(row, fieldnames[j]))])

\* the index of the first row that raises, 0 when none does
FirstBadRow(rows) ==
    IF \E i \in 1..Len(rows) : CsvRow(rows[i]) = None
    THEN CHOOSE i \in 1..Len(rows) :
            /\ CsvRow(rows[i]) = None
            /\ \A j \in 1..(i - 1) : CsvRow(rows[j]) # None
    ELSE 0

\* save_csv: the header, then one row per row up to the first that raises
save_csv(rows) ==
    LET bad == FirstBadRow(rows)
        n == IF bad = 0 THEN Len(rows) ELSE bad - 1
    IN  <<fieldnames>> \o [i \in 1..n |-> Val(CsvRow(rows[i]))]

\* save_jsonl(combined, ...); save_csv(combined, ...) and the end of the script
SaveSinks ==
    /\ pc = "main"
    /\ UNCHANGED <<script, configVars, loaderVars, commentVars>>
    /\ qi = NumTopics
    /\ jsonl' = Some(save_jsonl(combined))
    /\ csv' = Some(save_csv(combined))
    /\ exc' = IF FirstBadRow(combined) = 0 THEN "" ELSE "TypeError"
    /\ pc' = "exit"
    /\ ev' = Quiet("save")
    /\ UNCHANGED <<qi, all_rows, after, params, attempt, combined, seen_ids,
                   requests, lastPage>>

(***************************************************************************)
(* The loader (src/data_ingestion/load.py): per query, the paginated video *)
(* search, then the batches of videos().list with one worksheet row and    *)
(* one upsert per video; any exception inside the try ends the query.      *)
(***************************************************************************)
\* while videos_collected < VIDEOS_PER_QUERY
SearchGoesOn(n) == n < VIDEOS_PER_QUERY

\* the head of one iteration of `for query in search_queries`
VideoQuery ==
    /\ pc = "vmain"
    /\ vq < NumSearchQueries
    /\ all_video_ids' = <<>>
    /\ next_page_token' = None
    /\ videos_collected' = 0
    /\ pc' = IF SearchGoesOn(0) THEN "vsearch" ELSE "vbatch"
    /\ ev' = Quiet("call")
    /\ UNCHANGED <<script, configVars, commentVars, scraperVars, vq, total_videos, videos_collection,
                   saved>>

\* search_request.execute() returns a page: the rest of the loop body
VideoSearchPage ==
    /\ pc = "vsearch"
    /\ \E items \in VideoPages, token \in PageTokens :
        IF items = <<>>
        THEN /\ pc' = "vbatch"
             /\ ev' = Quiet("page")
             /\ UNCHANGED <<all_video_ids, next_page_token, videos_collected>>
        ELSE LET collected == videos_collected + Len(items)
                 again == token # None /\ SearchGoesOn(collected)
             IN  /\ all_video_ids' = all_video_ids \o items
                 /\ videos_collected' = collected
                 /\ next_page_token' = token
                 /\ pc' = IF again THEN "vsearch" ELSE "vbatch"
                 /\ ev' = Event("page", 0, 0, None, None, 0, Len(items),
                                token # None)
    /\ UNCHANGED <<script, configVars, commentVars, scraperVars, vq, total_videos, videos_collection,
                   saved>>

\* search_request.execute() raises: except Exception ... continue
VideoSearchFails ==
    /\ pc = "vsearch"
    /\ vq' = vq + 1
    /\ pc' = "vmain"
    /\ ev' = Quiet("raise")
    /\ UNCHANGED <<script, configVars, commentVars, scraperVars, all_video_ids, next_page_token,
                   videos_collected, total_videos, videos_collection, saved>>

\* the video_ids of the first k entries of a list
FirstIds(ids, k) == {ids[i] : i \in 1..k}

\* `for i in range(0, len(all_video_ids), 50)`: the videos of the batches get
\* a worksheet row and an upsert each, in order, up to the end or up to the
\* first request or write that raises
VideoBatches ==
    /\ pc = "vbatch"
    /\ \E k \in 0..Len(all_video_ids) :
        /\ total_videos' = total_videos + k
        /\ videos_collection' = videos_collection \cup FirstIds(all_video_ids, k)
        /\ ev' = Quiet(IF k = Len(all_video_ids) THEN "page" ELSE "raise")
    /\ vq' = vq + 1
    /\ pc' = "vmain"
    /\ UNCHANGED <<script, configVars, commentVars, scraperVars, all_video_ids, next_page_token,
                   videos_collected, saved>>

\* after the loop: wb.save(excel_filename)
VideoSave ==
    /\ pc = "vmain"
    /\ vq = NumSearchQueries
    /\ saved' = TRUE
    /\ pc' = "vexit"
    /\ ev' = Quiet("save")
    /\ UNCHANGED <<script, configVars, commentVars, scraperVars, vq, all_video_ids, next_page_token,
                   videos_collected, total_videos, videos_collection>>

(***************************************************************************)
(* The comments loader (src/data/load.py): per query one search, one       *)
(* videos().list with an upsert per video, then the comment threads of the *)
(* first videos that have comments, each inside its own try/except.        *)
(***************************************************************************)
\* an except that lets a comment failure leave the video loop
VideoLoopGoesOnUncaught(i, n, failed) == ~failed /\ i + 1 < n

\* for video in videos_with_comments[:5], after video i + 1 of n: its
\* try/except swallows a failure, so the loop goes on while videos remain
VideoLoopGoesOn(i, n, failed) == i + 1 < n

\* the entries of a list whose value is in a set, in order
Among(list, S) == SelectSeq(list, LAMBDA x : x \in S)

\* list[:k]
Take(list, k) == SubSeq(list, 1, Min(k, Len(list)))

\* search_request.execute() and what follows up to the videos request
YtSearch ==
    /\ pc = "ymain"
    /\ vq < NumSearchQueries
    /\ \E items \in SearchItems, failed \in BOOLEAN :
        IF failed \/ items = <<>>
        THEN \* except ... continue, or `if not items: continue`
             /\ vq' = vq + 1
             /\ pc' = "ymain"
             /\ ev' = Quiet(IF failed THEN "raise" ELSE "page")
             /\ UNCHANGED video_ids
        ELSE /\ video_ids' = items
             /\ pc' = "yvideos"
             /\ ev' = Event("page", 0, 0, None, None, 0, Len(items), FALSE)
             /\ UNCHANGED vq
    /\ UNCHANGED <<script, configVars, scraperVars, all_video_ids,
                   next_page_token, videos_collected, total_videos,
                   videos_collection, saved, videos_with_comments, vi,
                   comments_collection, total_comments>>

\* videos_request.execute(), the upsert of each video and the choice of
\* videos_with_comments; the response holds one item per video_id asked
\* for; the first k videos are upserted, and the step fails if failed
YtVideos ==
    /\ pc = "yvideos"
    /\ \E k \in 0..Len(video_ids), failed \in BOOLEAN,
          commented \in SUBSET VideoIds :
        /\ failed \/ k = Len(video_ids)
        /\ videos_collection' = videos_collection \cup FirstIds(video_ids, k)
        /\ total_videos' = total_videos + k
        /\ LET chosen == Take(Among(video_ids, commented), CommentVideos)
           IN  IF failed
               THEN /\ vq' = vq + 1
                    /\ pc' = "ymain"
                    /\ ev' = Quiet("raise")
                    /\ UNCHANGED <<videos_with_comments, vi>>
               ELSE /\ videos_with_comments' = chosen
                    /\ vi' = 0
                    \* no video to visit: time.sleep(1), next query
                    /\ vq' = IF chosen = <<>> THEN vq + 1 ELSE vq
                    /\ pc' = IF chosen = <<>> THEN "ymain" ELSE "ycomments"
                    /\ ev' = Quiet("page")
    /\ UNCHANGED <<script, configVars, scraperVars, all_video_ids,
                   next_page_token, videos_collected, saved, video_ids,
                   comments_collection, total_comments>>

\* one iteration of `for video in videos_with_comments[:5]`: the comment
\* threads are fetched and the first k upserted; a failure of the request or
\* of a write is caught by the except of line 133
YtComments ==
    /\ pc = "ycomments"
    /\ vi < Len(videos_with_comments)
    /\ \E items \in CommentPages, failed \in BOOLEAN :
        \E k \in 0..Len(items) :
            /\ failed \/ k = Len(items)
            /\ comments_collection' = comments_collection \cup FirstIds(items, k)
            /\ total_comments' = total_comments + k
            /\ ev' = Event(IF failed THEN "raise" ELSE "page", 0, 0, None, None,
                           0, k, FALSE)
            /\ vi' = vi + 1
            /\ IF VideoLoopGoesOn(vi, Len(videos_with_comments), failed)
               THEN UNCHANGED <<pc, vq>>
               ELSE \* the query is over: time.sleep(1), next query
                    /\ pc' = "ymain"
                    /\ vq' = vq + 1
    /\ UNCHANGED <<script, configVars, scraperVars, all_video_ids,
                   next_page_token, videos_collected, total_videos,
                   videos_collection, saved, video_ids, videos_with_comments>>

\* after the loop: the totals are printed and the client is closed
YtDone ==
    /\ pc = "ymain"
    /\ vq = NumSearchQueries
    /\ pc' = "yexit"
    /\ ev' = Quiet("done")
    /\ UNCHANGED <<script, configVars, scraperVars, loaderVars, commentVars>>

Next ==
    \/ ScraperStartup
    \/ LoaderStartup
    \/ CallSearch
    \/ RateLimited
    \/ Forbidden
    \/ NetworkError
    \/ HttpError
    \/ BadBody
    \/ Decoded
    \/ Page
    \/ Dedup
    \/ SaveSinks
    \/ VideoQuery
    \/ VideoSearchPage
    \/ VideoSearchFails
    \/ VideoBatches
    \/ VideoSave
    \/ YtSearch
    \/ YtVideos
    \/ YtComments
    \/ YtDone

Spec == Init /\ [][Next]_vars

(***************************************************************************)
(* The sink writers as functions of their rows argument: besides the runs  *)
(* of the scripts, runs that start at the two save calls with a list of    *)
(* rows that the main block itself never builds.                           *)
(***************************************************************************)
\* the longest rows argument tried
MaxSinkRows == 2

Without(r, keys) == [k \in DOMAIN r \ keys |-> r[k]]
FullRow == Tagged(SchemaOf[PostA1], "ai_tools")
SinkRows ==
    {FullRow,
     [FullRow EXCEPT !["hashtags"] = None],
     [FullRow EXCEPT !["mentions"] = None, !["text"] = None,
                     !["likes"] = None],
     [FullRow EXCEPT !["hashtags"] = Some(<<>>), !["engagement"] = None],
     Without(FullRow, {"topic_tag"}),
     Without(SchemaOf[PostB], {"hashtags", "mentions", "location"}),
     [post_id |-> Some("t3_c")]}

InitSinkInputs ==
    /\ script = "scraper"
    /\ pc = "main"
    /\ youtube_api_key = None
    /\ mongo_uri = None
    /\ USER_AGENT \in EnvValues
    /\ video_ids = <<>>
    /\ videos_with_comments = <<>>
    /\ vi = 0
    /\ comments_collection = {}
    /\ total_comments = 0
    /\ qi = NumTopics
    /\ combined \in SeqsUpTo(SinkRows, MaxSinkRows)
    /\ seen_ids = {}
    /\ all_rows = <<>>
    /\ after = None
    /\ params = None
    /\ attempt = 0
    /\ jsonl = None
    /\ csv = None
    /\ exc = ""
    /\ requests = 0
    /\ lastPage = "none"
    /\ ev = Quiet("init")
    /\ vq = 0
    /\ all_video_ids = <<>>
    /\ next_page_token = None
    /\ videos_collected = 0
    /\ total_videos = 0
    /\ videos_collection = {}
    /\ saved = FALSE

SpecSinks == (Init \/ InitSinkInputs) /\ [][Next]_vars

(***************************************************************************)
(* Properties.                                                             *)
(***************************************************************************)
PidOf(r) == Get(r, "post_id")
HasPid(r) == PidOf(r) # None /\ Val(PidOf(r)) # ""
\* the post_ids the records of a list carry
PidsOf(recs) == {Val(PidOf(recs[i])) : i \in {j \in 1..Len(recs) : HasPid(recs[j])}}
\* the position of the first record of a list that carries pid
FirstIndex(recs, pid) ==
    CHOOSE i \in 1..Len(recs) :
        /\ PidOf(recs[i]) = Some(pid)
        /\ \A j \in 1..(i - 1) : PidOf(recs[j]) # Some(pid)

\* combined holds no post_id twice, and seen_ids is the post_ids it holds
C1_Unique ==
    /\ \A i, j \in 1..Len(combined) :
          PidOf(combined[i]) = PidOf(combined[j]) => i = j
    /\ \A i \in 1..Len(combined) : HasPid(combined[i])
    /\ seen_ids = PidsOf(combined)

\* the main block's handling of one query's rows: the records kept before
\* stay as they are; every post_id of the rows is in combined afterwards; a
\* record added is the first row of this query with its post_id, tagged with
\* this query's tag and with likes + comments of that row as engagement; the
\* added records are in the order of their first rows
C1_Step ==
    (pc = "rows" /\ pc' = "main") =>
        LET old == Len(combined)
            tag == topics[qi + 1]
            src(k) == FirstIndex(all_rows, Val(PidOf(combined'[k])))
        IN  /\ Len(combined') >= old
            /\ SubSeq(combined', 1, old) = combined
            /\ PidsOf(combined') = PidsOf(combined) \cup PidsOf(all_rows)
            /\ \A k \in (old + 1)..Len(combined') :
                  LET r == combined'[k]
                      row == all_rows[src(k)]
                  IN  /\ Val(PidOf(r)) \notin PidsOf(combined)
                      /\ Get(r, "topic_tag") = Some(tag)
                      /\ Get(r, "engagement")
                           = Some(Val(row["likes"]) + Val(row["comments"]))
                      /\ \A f \in DOMAIN row : r[f] = row[f]
                      /\ DOMAIN r = DOMAIN row \cup {"topic_tag", "engagement"}
            /\ \A k, l \in (old + 1)..Len(combined') : k < l => src(k) < src(l)

\* C1: at every point of the run combined holds exactly one record per
\* post_id returned by the queries handled so far, the one of the first
\* occurrence in processing order with the tag of the first query that
\* returned it; a later occurrence neither replaces nor changes a kept record
C1_FirstOccurrenceWins == []C1_Unique /\ [][C1_Step]_vars

\* the second query has returned t3_a again, with other counts; the record
\* kept is the first query's
C1_Witness ==
    /\ pc = "main"
    /\ qi = 2
    /\ \E i \in 1..Len(all_rows) :
          /\ PidOf(all_rows[i]) = Some("t3_a")
          /\ all_rows[i]["likes"] = Some(0)
    /\ \E k \in 1..Len(combined) :
          /\ PidOf(combined[k]) = Some("t3_a")
          /\ combined[k]["likes"] = Some(5)
          /\ combined[k]["topic_tag"] = Some(topics[1])
          /\ combined[k]["engagement"] = Some(7)
    /\ Len(combined) = 2

\* the last step received a response
IsResponse == ev.kind \in {"retry", "raise", "ok"} /\ ev.status # 0

\* the seconds a Retry-After value states, -1 when it is not a number
SecondsStated(h) ==
    CASE h = Some(<<"1">>) -> 1
      [] h = Some(<<"9", "0">>) -> 90
      [] OTHER -> -1

\* after a 429 or 503 on attempt k the call has slept min(max(s, 2), 60)
\* seconds, s the Retry-After seconds when stated and 2^k otherwise; the
\* sleep is within [2, 60]
C2_Sleep ==
    (IsResponse /\ ev.status \in {429, 503}) =>
        LET s == IF SecondsStated(ev.retry_after) >= 0
                 THEN SecondsStated(ev.retry_after) ELSE 2 ^ ev.attempt
            floored == IF s < 2 THEN 2 ELSE s
        IN  /\ ev.kind # "ok"
            /\ ev.backoff = (IF floored > 60 THEN 60 ELSE floored)
            /\ ev.backoff >= 2
            /\ ev.backoff <= 60

\* two successive 429 responses without Retry-After: the second sleep is not
\* the shorter one
C2_Step ==
    (/\ IsResponse /\ ev.status = 429 /\ ev.retry_after = None
     /\ ev'.kind \in {"retry", "raise"} /\ ev'.status = 429
     /\ ev'.retry_after = None)
    => (ev'.attempt = ev.attempt + 1 /\ ev'.backoff >= ev.backoff)

\* C2: the sleep after a 429 or 503 response on attempt k is
\* min(max(s, 2), 60) with s the numeric Retry-After value, else 2^k; it lies
\* in [2, 60] and a run of 429 responses without the header sleeps
\* non-decreasing times
C2_BackoffBounds == []C2_Sleep /\ [][C2_Step]_vars

\* a fourth 429 in a row without Retry-After has slept 8 seconds
C2_Witness ==
    /\ ev.kind = "retry"
    /\ ev.status = 429
    /\ ev.retry_after = None
    /\ ev.attempt = 3
    /\ ev.backoff = 8
    /\ pc = "fetch"

\* a fetch_json call in progress has issued one request per attempt begun and
\* has attempts left; no call issues more than max_retries requests; a
\* retryable response on the last attempt ends the call with an exception
C3_Budget ==
    /\ requests <= max_retries
    /\ pc = "fetch" => (requests = attempt /\ attempt < max_retries)
    /\ ev.kind = "retry" => ev.attempt < max_retries - 1
    /\ (IsResponse /\ ev.attempt = max_retries - 1
        /\ ev.status \in {429, 503, 403})
       => (/\ pc = "exit"
           /\ exc \in {"RuntimeError", "HTTPError"}
           /\ requests = max_retries)

\* every attempt ends the call, with the body or with an exception, or
\* begins the next attempt
C3_Step ==
    pc = "fetch" =>
        \/ pc' = "fetch" /\ attempt' = attempt + 1 /\ requests' = requests + 1
        \/ pc' = "page" /\ ev'.kind = "ok" /\ requests < max_retries
        \/ pc' = "exit" /\ exc' # "" /\ ev'.kind = "raise"

\* C3: one fetch_json call issues at most max_retries requests, ends in an
\* error once all of them were answered with retryable statuses, and
\* every attempt either ends the call or uses up one of the attempts
C3_RetryBudget == []C3_Budget /\ [][C3_Step]_vars

\* six 429/503/403 answers in a row: RuntimeError after the sixth request
C3_Witness ==
    /\ pc = "exit"
    /\ exc = "RuntimeError"
    /\ requests = max_retries
    /\ ev.attempt = max_retries - 1
    /\ ev.status = 503

\* C5 (as claimed): a failed page request aborts its query alone, so a run
\* that has ended has handled every topic and written both sinks
C5_RunSurvivesFailedPage ==
    pc = "exit" => (qi = NumTopics /\ jsonl # None /\ csv # None)

\* C6: a 403 on an attempt before the last is followed by a sleep of
\* min(2^attempt, 30) seconds and the next attempt; a 403 on the last attempt
\* is not retried: the call raises without sleeping
C6_Forbidden ==
    (IsResponse /\ ev.status = 403) =>
        IF ev.attempt < max_retries - 1
        THEN /\ ev.kind = "retry"
             /\ ev.backoff = (IF 2 ^ ev.attempt > 30 THEN 30 ELSE 2 ^ ev.attempt)
             /\ pc = "fetch"
             /\ attempt = ev.attempt + 1
        ELSE /\ ev.kind = "raise"
             /\ ev.backoff = 0
             /\ pc = "exit"
             /\ exc = "HTTPError"

\* a 403 on the sixth attempt, after five retried answers
C6_Witness ==
    /\ ev.status = 403
    /\ ev.attempt = max_retries - 1
    /\ ev.kind = "raise"
    /\ exc = "HTTPError"
    /\ requests = max_retries

\* C7 (as claimed): a response whose status is not 2xx and is none of 429,
\* 503, 403 ends the call with a failure at once, without a sleep
C7_OtherStatusFails ==
    (IsResponse /\ (ev.status < 200 \/ ev.status > 299)
     /\ ev.status \notin {429, 503, 403})
    => (ev.kind = "raise" /\ ev.backoff = 0 /\ pc = "exit" /\ exc # "")

\* C8 (as claimed): no polite delay is taken after the page on which
\* search_reddit returns
C8_NoDelayOnTerminalPage ==
    (ev.kind = "page" /\ pc = "rows") => ~ev.polite

\* the query in progress is done: target reached, or the last page came
\* without cursor, or the last page was empty
DoneCondition ==
    \/ Len(all_rows) >= limit_total
    \/ lastPage = "nocursor"
    \/ lastPage = "empty"

\* search_reddit has returned exactly when the done condition holds; until
\* then it is requesting a page or handling one
C9_Done ==
    /\ pc = "rows" => DoneCondition
    /\ pc \in {"fetch", "page"} => ~DoneCondition
    /\ Len(all_rows) <= limit_total

\* what a page adds: nothing when it is empty; otherwise its children in
\* order, as many as fit under limit_total, cursor or not
C9_Step ==
    pc = "page" =>
        /\ pc' \in {"fetch", "rows"}
        /\ lastPage' = "empty" => (all_rows' = all_rows /\ pc' = "rows")
        /\ lastPage' # "empty" =>
              /\ ev'.n > 0
              /\ Len(all_rows') =
                    (IF Len(all_rows) + ev'.n > limit_total THEN limit_total
                     ELSE Len(all_rows) + ev'.n)
              /\ SubSeq(all_rows', 1, Len(all_rows)) = all_rows
        /\ pc' = "fetch" => (requests' = 0 /\ attempt' = 0)

\* C9: the pagination loop is done exactly when the target is reached or the
\* last page had no cursor or no items; it requests no page once done and
\* requests another while not done; an empty page adds no record and a page
\* without cursor adds its items
C9_Pagination == []C9_Done /\ [][C9_Step]_vars

\* a page of one child without cursor ended the query below the target, and
\* its child was kept
C9_Witness ==
    /\ pc = "rows"
    /\ lastPage = "nocursor"
    /\ ev.kind = "page"
    /\ ev.n = 1
    /\ Len(all_rows) = 1
    /\ Len(all_rows) < limit_total

\* C4: whatever the remote answers, also a non-empty page with a cursor on
\* every request, no page is requested once the items collected reach the
\* target: search_reddit never holds more than limit_total rows, and the
\* loader's search loop never collects a full page more than VIDEOS_PER_QUERY
C4_StopsAtTarget ==
    /\ Len(all_rows) <= limit_total
    /\ pc \in {"fetch", "page"} => Len(all_rows) < limit_total
    /\ pc = "vsearch" => videos_collected < VIDEOS_PER_QUERY
    /\ videos_collected < VIDEOS_PER_QUERY + maxResults
    /\ Len(all_video_ids) = videos_collected

\* a second page of two children with a cursor arrived with room for one:
\* search_reddit returned with exactly limit_total rows
C4_Witness ==
    /\ pc = "rows"
    /\ params # None
    /\ lastPage = "cursor"
    /\ ev.kind = "page"
    /\ ev.n = PageLimit
    /\ Len(all_rows) = limit_total

RECURSIVE CommaJoined(_)
\* the entries of a list, separated by commas
CommaJoined(list) ==
    IF Len(list) = 0 THEN ""
    ELSE IF Len(list) = 1 THEN list[1]
    ELSE CommaJoined(SubSeq(list, 1, Len(list) - 1)) \o "," \o list[Len(list)]

\* C10: the two files are written together, once the last topic is handled,
\* from combined: one JSON line per record with each of its keys once, null
\* for None and the value (a list as a list) otherwise; a header and one CSV
\* row per record, each cell "" for a None or missing field, the comma-joined
\* entries for a list, the decimal digits for a number, the string itself
\* otherwise; no row makes the writers raise
C10_Sinks ==
    /\ (jsonl = None) <=> (csv = None)
    /\ jsonl # None =>
        /\ pc = "exit"
        /\ qi = NumTopics
        /\ exc = ""
        /\ Len(Val(jsonl)) = Len(combined)
        /\ Len(Val(csv)) = Len(combined) + 1
        /\ Val(csv)[1] = fieldnames
        /\ \A i \in 1..Len(combined) :
              LET r == combined[i]
                  line == Val(jsonl)[i]
                  row == Val(csv)[i + 1]
              IN  /\ Len(line) = Cardinality(DOMAIN r)
                  /\ {line[j][1] : j \in 1..Len(line)} = DOMAIN r
                  /\ \A j \in 1..Len(line) :
                        line[j][2] =
                            (IF r[line[j][1]] = None THEN [json |-> "null"]
                             ELSE [json |-> "value", v |-> Val(r[line[j][1]])])
                  /\ Len(row) = Len(fieldnames)
                  /\ \A c \in 1..Len(fieldnames) :
                        LET k == fieldnames[c]
                            o == Get(r, k)
                        IN  row[c] =
                              (IF o = None THEN ""
                               ELSE IF k \in ListFields THEN CommaJoined(Val(o))
                               ELSE IF k \in IntFields THEN ToString(Val(o))
                               ELSE Val(o))

\* both files are written for two rows, the first with hashtags None, the
\* second without topic_tag
C10_Witness ==
    /\ jsonl # None
    /\ csv # None
    /\ Len(combined) = 2
    /\ Get(combined[1], "hashtags") = None
    /\ "hashtags" \in DOMAIN combined[1]
    /\ "topic_tag" \notin DOMAIN combined[2]
    /\ Val(csv)[2][4] = ""
    /\ Val(csv)[3][13] = ""
    /\ Val(csv)[3][4] = "ab"

(***************************************************************************)
(* The loaders' containment of failures.                                   *)
(***************************************************************************)
\* the head of the query loop of the loader that runs
QueryLoopHead == IF script = "loader" THEN "vmain" ELSE "ymain"

\* C11, every step of a loader: what is stored stays stored; a failure in
\* the comments of one video (request or write) leaves the loader at the
\* next video of the same query, or, after the last video, at the next
\* query; a failure of the search or of the videos request or upserts ends
\* only the query in progress: the loop is at its head for the next query.
C11_Step ==
    /\ videos_collection \subseteq videos_collection'
    /\ comments_collection \subseteq comments_collection'
    /\ (pc = "ycomments" /\ ev'.kind = "raise") =>
           /\ vi' = vi + 1
           /\ videos_with_comments' = videos_with_comments
           /\ IF vi + 1 < Len(videos_with_comments)
              THEN pc' = "ycomments" /\ vq' = vq
              ELSE pc' = "ymain" /\ vq' = vq + 1
    /\ (pc \in {"ymain", "yvideos", "vsearch", "vbatch"} /\ ev'.kind = "raise") =>
           /\ pc' = QueryLoopHead
           /\ vq' = vq + 1
           /\ vq' <= NumSearchQueries

\* C11: failures in the loaders are contained at the video or at the query
C11_FailuresContained == [][C11_Step]_vars

\* the comments of the first of two videos failed after a video was stored:
\* the loader is at the second video of the same query
C11_Witness ==
    /\ script = "comments"
    /\ pc = "ycomments"
    /\ ev.kind = "raise"
    /\ vi = 1
    /\ Len(videos_with_comments) = 2
    /\ videos_collection # {}
    /\ vq >= 1

(***************************************************************************)
(* Configuration at startup.                                               *)
(***************************************************************************)
\* a configuration input of the script that runs is absent from the
\* environment: the user agent of the scraper, the API key or the storage
\* connection string of a loader
RequiredMissing ==
    /\ pc # "start"
    /\ IF script = "scraper" THEN USER_AGENT = None
       ELSE youtube_api_key = None \/ mongo_uri = None

\* the last step issued a network request
Requested == ev.kind \in {"retry", "raise", "ok", "page"}

\* a loader whose API key is absent or empty ends at startup with exit(1)
ApiKeyIsRequired ==
    (pc # "start" /\ script # "scraper" /\ IsFatal(youtube_api_key)) =>
        pc = "fatal"

\* C12 (as claimed): a script with a required configuration input absent
\* ends at startup with a non-zero exit, so it never issues a network request
C12_MissingConfigIsFatal == RequiredMissing => ~Requested

(***************************************************************************)
(* The cursor and the attempt counter across page requests and queries.    *)
(***************************************************************************)
\* C13, every step: a request carries the cursor of the page before it in
\* the same search_reddit call, and none when it is the first of the call; a
\* retry carries the cursor of the attempt before it; a fetch_json call
\* starts at attempt 0 with no request issued; a search_reddit call starts
\* without cursor, whatever the query before it ended with.
C13_Step ==
    /\ pc = "fetch" =>
           /\ ev'.sent = IF lastPage = "none" THEN None ELSE after
           /\ lastPage # "none" => HasCursor(after)
           /\ lastPage = "none" => after = None
    /\ (pc = "fetch" /\ pc' = "fetch") =>
           /\ attempt' = attempt + 1
           /\ after' = after
           /\ params' = params
    /\ (pc # "fetch" /\ pc' = "fetch") =>
           /\ attempt' = 0
           /\ requests' = 0
    /\ (pc = "main" /\ pc' = "fetch") =>
           /\ after' = None
           /\ params' = None
           /\ lastPage' = "none"
    /\ (pc = "page" /\ pc' = "fetch") =>
           /\ HasCursor(after')
           /\ params' = after'

\* C13: cursors follow the pages of one query and nothing is carried over
C13_CursorAndBudgetScoped == [][C13_Step]_vars

\* in the second query, a request for a later page was answered after a
\* retry: it carried the cursor "c2" of the page before it
C13_Witness ==
    /\ script = "scraper"
    /\ qi = 1
    /\ Len(combined) >= 1
    /\ pc = "fetch"
    /\ ev.kind = "retry"
    /\ attempt = 1
    /\ lastPage = "cursor"
    /\ after = Some("c2")
    /\ ev.sent = Some("c2")
====
